---- MODULE Spec2Model ----
(***************************************************************************)
(* AgentManager (src/core/agents/manager.py) on one asyncio event loop.    *)
(*                                                                         *)
(* The loop is single-threaded: `ready` is its FIFO queue of callbacks and *)
(* `running` names the coroutine that is in the middle of a callback.      *)
(* Callers of the manager (HTTP handlers, the lifespan hook) are other     *)
(* coroutines of the same loop; they invoke an operation between two       *)
(* callbacks, never in the middle of one.                                  *)
(*                                                                         *)
(* ShellExecutor (src/core/executor.py) is modelled beside it: one         *)
(* execute() call with its process (SpecExecute) and one stream_output()   *)
(* generator with its process and pipes (SpecStream).                      *)
(***************************************************************************)
EXTENDS Integers, Sequences, FiniteSets, TLC

\* Bounds of the model.
MaxTasks == 3       \* asyncio tasks created over the manager's lifetime
MaxCapacity == 2    \* largest configured settings.max_concurrent_agents
MaxSwarm == 2       \* longest task list handed to run_swarm

TaskIds == {"A", "B"}          \* AgentTask.task_id values callers use
Commands == {"ls"}             \* command strings handed to execute_command
Uids == 1..MaxTasks            \* identities of the asyncio tasks

\* Callbacks the loop has scheduled: a step of the asyncio task u, or the
\* done-callback of task u that resumes the shutdown() awaiting it.
StepOf(u) == [kind |-> "step", of |-> u]
WakeupBy(u) == [kind |-> "wakeup", of |-> u]

VARIABLES
    capacity,     \* settings.max_concurrent_agents the semaphore was built with
    agents,       \* self.agents: agent_<k> -> asyncio task, in insertion order
    results,      \* self.results: task_id -> AgentResult
    semValue,     \* self.semaphore._value
    semWaiters,   \* self.semaphore._waiters
    nTasks,       \* asyncio tasks created so far
    pc,           \* position of each asyncio task's coroutine
    mustCancel,   \* cancel() requested, CancelledError not yet thrown in
    cell,         \* closure variable `task` of the create_agent call
    submitted,    \* task_id of the AgentTask the caller passed
    handleId,     \* the agent_id create_agent made for the task (line 55)
    ready,        \* the loop's queue of scheduled callbacks
    running,      \* the task whose coroutine is executing right now: {} or {u}
    sd,           \* the shutdown() coroutine
    lastCall      \* how the latest manager call ended, as its caller saw it

\* ShellExecutor (executor.py): one execute() call at a time
VARIABLES
    use_containers,  \* settings.use_containers
    request,         \* the ExecutionRequest of the call
    executePc,       \* position of the execute() coroutine
    process,         \* the spawned OS process and its asyncio transport
    timeout,         \* local `timeout` of execute (line 102): {} until set
    elapsed,         \* seconds the call has spent in wait_for
    atTimeout,       \* state the process was in when wait_for's timer fired
    result,          \* the ExecutionResult returned to the caller
    executeExc,      \* the exception last raised inside execute
    backend          \* where the command was started: none, native, container

\* ShellExecutor.stream_output: one call, its process and its consumer
VARIABLES
    script,      \* what the command prints: the stream of each line, in order
    overlong,    \* numbers of the lines longer than the StreamReader limit
    streamExc,   \* the exception last raised inside stream_output
    streamCwd,   \* request.cwd of the call
    written,     \* lines of the script the process has written so far
    stdoutBuf,   \* lines written to stdout and not yet read (pipe + StreamReader)
    stderrBuf,   \* the same for stderr
    streamProc,  \* none, alive, exited (pipes at EOF, returncode still None), reaped
    streamPc,    \* position of the stream_output generator
    chunks       \* what the generator has yielded to its consumer

\* ShellExecutor._build_command: the latest two calls
VARIABLES
    platform,      \* self.platform
    shell,         \* self.shell
    buildRequest,  \* the request of the latest _build_command call
    cmd,           \* the vector that call returned
    otherRequest,  \* the request of the call before it
    otherCmd       \* the vector that call returned

managerVars == <<capacity, agents, results, semValue, semWaiters, nTasks, pc,
                 mustCancel, cell, submitted, handleId, ready, running, sd, lastCall>>

executeVars == <<use_containers, request, executePc, process, timeout, elapsed,
                 atTimeout, result, executeExc, backend>>

streamVars == <<script, overlong, streamExc, streamCwd, written, stdoutBuf, stderrBuf, streamProc,
                streamPc, chunks>>

buildVars == <<platform, shell, buildRequest, cmd, otherRequest, otherCmd>>

shellVars == <<executeVars, streamVars, buildVars>>

vars == <<managerVars, shellVars>>

Min(S) == CHOOSE x \in S : \A y \in S : x <= y

\* f"cmd_{hash(command)}"
CmdTaskId(command) == "cmd_" \o command

AllTaskIds == TaskIds \cup {CmdTaskId(c) : c \in Commands}

\* Values the name `task` can hold.
AgentTaskObj(tid) == [kind |-> "AgentTask", task_id |-> tid]
AsyncioTaskObj == [kind |-> "asyncio.Task", task_id |-> "none"]
NoObj == [kind |-> "none", task_id |-> "none"]

\* obj.task_id evaluates without AttributeError
HasTaskId(obj) == obj.kind = "AgentTask"

NoResult == [present |-> FALSE, success |-> FALSE, output |-> "", error |-> ""]
SuccessResult == [present |-> TRUE, success |-> TRUE, output |-> "content", error |-> ""]
FailureResult == [present |-> TRUE, success |-> FALSE, output |-> "", error |-> "str(e)"]

Terminal == {"done_result", "done_exc", "cancelled"}
\* positions at which the coroutine is inside `async with self.semaphore`
InGate == {"in_gate", "awaiting_chat", "chat_ok", "chat_err", "chat_cancelled"}

\* asyncio.Task.done()
Done(u) == pc[u] \in Terminal

NoCall == [op |-> "none", outcome |-> "none", exc |-> "none", tasks |-> << >>,
           registered |-> 0, value |-> << >>, pre |-> {}, cancels |-> 0,
           second |-> FALSE]

SdIdle == [pc |-> "idle", pos |-> 0, size |-> 0, on |-> 0, pre |-> {},
           cancels |-> 0, second |-> FALSE]

\* AgentManager.__init__; settings.max_concurrent_agents is read from the
\* environment and asyncio.Semaphore accepts every value >= 0.
ManagerInit ==
    /\ capacity \in 0..MaxCapacity
    /\ agents = << >>
    /\ results = [t \in AllTaskIds |-> NoResult]
    /\ semValue = capacity
    /\ semWaiters = << >>
    /\ nTasks = 0
    /\ pc = [u \in Uids |-> "none"]
    /\ mustCancel = [u \in Uids |-> FALSE]
    /\ cell = [u \in Uids |-> NoObj]
    /\ submitted = [u \in Uids |-> "none"]
    /\ handleId = [u \in Uids |-> {}]
    /\ ready = << >>
    /\ running = {}
    /\ sd = SdIdle
    /\ lastCall = NoCall

(***************************************************************************)
(* create_agent, run_swarm, execute_command                                *)
(***************************************************************************)

\* agent_id = f"agent_{len(self.agents) + 1}"; agent_<k> is modelled as k
AgentId(a) == Len(a) + 1

\* a registration that starts a new registry: self.agents = {agent_id: task}
DictOfOne(d, k, v) == <<v>>

\* self.agents[agent_id] = task
DictSet(d, k, v) == IF k \in DOMAIN d THEN [d EXCEPT ![k] = v] ELSE Append(d, v)

\* What the name `task` holds once `task = asyncio.create_task(agent_worker())`
\* has run: the parameter is rebound, and agent_worker reads the same
\* variable when the loop first steps it.
CellAfterCreate(passed) == AsyncioTaskObj

\* logger.info(f"Created agent {agent_id} for task {task.task_id}") raises
\* AttributeError when `task` has no task_id.
CreateAgentRaises(passed) == ~HasTaskId(CellAfterCreate(passed))

RECURSIVE RegisterAgents(_, _)
\* one `self.agents[agent_id] = task` per new asyncio task, in order
RegisterAgents(a, us) ==
    IF us = << >> THEN a
    ELSE RegisterAgents(DictSet(a, AgentId(a), Head(us)), Tail(us))

\* The state change of create_agent for the first k tasks of ts: a new asyncio
\* task per AgentTask, scheduled on the loop and stored under a fresh agent id.
Register(ts, k) ==
    LET new == [i \in 1..k |-> nTasks + i]
        steps == [i \in 1..k |-> StepOf(nTasks + i)]
    IN
    /\ nTasks + k <= MaxTasks
    /\ nTasks' = nTasks + k
    /\ pc' = [u \in Uids |-> IF u > nTasks /\ u <= nTasks + k THEN "pending" ELSE pc[u]]
    /\ cell' = [u \in Uids |-> IF u > nTasks /\ u <= nTasks + k
                               THEN CellAfterCreate(AgentTaskObj(ts[u - nTasks]))
                               ELSE cell[u]]
    /\ submitted' = [u \in Uids |-> IF u > nTasks /\ u <= nTasks + k
                                    THEN ts[u - nTasks] ELSE submitted[u]]
    /\ handleId' = [u \in Uids |-> IF u > nTasks /\ u <= nTasks + k
                                   THEN {AgentId(agents) + (u - nTasks) - 1}
                                   ELSE handleId[u]]
    /\ ready' = ready \o steps
    /\ agents' = RegisterAgents(agents, new)
    /\ UNCHANGED <<capacity, results, semValue, semWaiters, mustCancel, running, sd>>

Raised(op, exc, ts, reg) ==
    [NoCall EXCEPT !.op = op, !.outcome = "raised", !.exc = exc,
                   !.tasks = ts, !.registered = reg]

Returned(op, ts, reg, val) ==
    [NoCall EXCEPT !.op = op, !.outcome = "returned", !.tasks = ts,
                   !.registered = reg, !.value = val]

CreateAgent(tid) ==
    /\ UNCHANGED shellVars
    /\ running = {}
    /\ Register(<<tid>>, 1)
    /\ lastCall' = IF CreateAgentRaises(AgentTaskObj(tid))
                   THEN Raised("create_agent", "AttributeError", <<tid>>, 1)
                   ELSE Returned("create_agent", <<tid>>, 1, <<AgentId(agents)>>)

\* run_swarm: the first create_agent that raises ends the call; were none to
\* raise, every task would be registered and the call would suspend on the
\* first handle.
RunSwarm(ts) ==
    /\ UNCHANGED shellVars
    /\ running = {}
    /\ IF ts = << >>
       THEN /\ lastCall' = Returned("run_swarm", << >>, 0, << >>)
            /\ UNCHANGED <<capacity, agents, results, semValue, semWaiters, nTasks,
                           pc, mustCancel, cell, submitted, handleId, ready, running, sd>>
       ELSE IF CreateAgentRaises(AgentTaskObj(ts[1]))
       THEN /\ Register(ts, 1)
            /\ lastCall' = Raised("run_swarm", "AttributeError", ts, 1)
       ELSE /\ Register(ts, Len(ts))
            /\ lastCall' = [NoCall EXCEPT !.op = "run_swarm", !.outcome = "suspended",
                                          !.tasks = ts, !.registered = Len(ts)]

ExecuteCommand(command, sandbox) ==
    /\ UNCHANGED shellVars
    /\ running = {}
    /\ Register(<<CmdTaskId(command)>>, 1)
    /\ lastCall' = IF CreateAgentRaises(AgentTaskObj(CmdTaskId(command)))
                   THEN Raised("execute_command", "AttributeError", <<CmdTaskId(command)>>, 1)
                   ELSE [NoCall EXCEPT !.op = "execute_command", !.outcome = "suspended",
                                       !.tasks = <<CmdTaskId(command)>>, !.registered = 1]

\* get_status()
GetStatus ==
    [active_agents |-> Cardinality({i \in DOMAIN agents : ~Done(agents[i])}),
     completed_tasks |-> Cardinality({t \in AllTaskIds : results[t].present /\ results[t].success}),
     failed_tasks |-> Cardinality({t \in AllTaskIds : results[t].present /\ ~results[t].success}),
     total_agents |-> Len(agents)]


(***************************************************************************)
(* The task body: agent_worker and _run_agent                              *)
(***************************************************************************)

\* The part of the state a running coroutine changes; `rdy` is the ready
\* queue once the callback being run has been taken off it.
Cur(rdy) ==
    [pc |-> pc, semValue |-> semValue, semWaiters |-> semWaiters, ready |-> rdy,
     running |-> {}, results |-> results, mustCancel |-> mustCancel]

Without(w, u) == SelectSeq(w, LAMBDA x : x # u)

\* a gate whose acquire never waits
SemNeverLocked(s) == FALSE

\* asyncio.Semaphore.locked(): no permit left, or a waiter that is not cancelled
SemLocked(s) ==
    \/ s.semValue = 0
    \/ \E i \in DOMAIN s.semWaiters : s.pc[s.semWaiters[i]] \in {"sem_wait", "sem_granted"}

\* asyncio.Semaphore._wake_up_next(): hand a permit to the first waiter whose
\* future is not done and schedule that waiter
WakeUpNext(s) ==
    LET cand == {i \in DOMAIN s.semWaiters : s.pc[s.semWaiters[i]] = "sem_wait"} IN
    IF cand = {} THEN s
    ELSE LET w == s.semWaiters[Min(cand)] IN
         [s EXCEPT !.semValue = @ - 1, !.pc[w] = "sem_granted",
                   !.ready = Append(@, StepOf(w))]

\* a way out of the body that does not give the permit back
SemKept(s) == s

\* asyncio.Semaphore.release(), run by `async with` on every way out
SemRelease(s) == WakeUpNext([s EXCEPT !.semValue = @ + 1])

\* a worker that enters the body without going through the gate
EnterUngated(s, u) == [s EXCEPT !.pc[u] = "in_gate", !.running = {u}]

\* `async with self.semaphore:` on entry: take a permit, or wait for one
SemAcquire(s, u) ==
    IF ~SemLocked(s)
    THEN [s EXCEPT !.semValue = @ - 1, !.pc[u] = "in_gate", !.running = {u}]
    ELSE [s EXCEPT !.pc[u] = "sem_wait", !.semWaiters = Append(@, u)]

\* a worker that stores a success result on every way out, cancellation included
TaskDoneStoresSuccess(s, u, final) ==
    [s EXCEPT !.pc[u] = final, !.mustCancel[u] = FALSE, !.running = {},
              !.results[submitted[u]] = SuccessResult,
              !.ready = IF sd.pc = "awaiting" /\ sd.on = u
                        THEN Append(@, WakeupBy(u)) ELSE @]

\* The asyncio task of u finishes: whoever awaits it is scheduled.
TaskDone(s, u, final) ==
    [s EXCEPT !.pc[u] = final, !.mustCancel[u] = FALSE, !.running = {},
              !.ready = IF sd.pc = "awaiting" /\ sd.on = u
                        THEN Append(@, WakeupBy(u)) ELSE @]

\* _run_agent up to its first await, called with what `task` holds: the first
\* statement of the try block formats task.task_id; the except handler builds
\* AgentResult(task_id=task.task_id) before it stores anything.
RunAgent(taskArg) ==
    IF HasTaskId(taskArg) THEN "await_chat" ELSE "AttributeError"

\* One step of the asyncio task of u, from where its coroutine is suspended.
StepFrom(s, u) ==
    CASE s.pc[u] = "pending" ->
           \* a task cancelled before its first step never enters the body
           IF s.mustCancel[u] THEN TaskDone(s, u, "cancelled") ELSE SemAcquire(s, u)
      [] s.pc[u] = "sem_cancelled" ->
           TaskDone([s EXCEPT !.semWaiters = Without(@, u)], u, "cancelled")
      [] s.pc[u] = "sem_granted" ->
           LET r == [s EXCEPT !.semWaiters = Without(@, u)] IN
           IF s.mustCancel[u]
           THEN TaskDone(SemRelease(r), u, "cancelled")
           ELSE [(IF r.semValue > 0 THEN WakeUpNext(r) ELSE r)
                   EXCEPT !.pc[u] = "in_gate", !.running = {u}]
      [] s.pc[u] = "chat_ok" ->
           \* lines 78-90: the result is stored, then the permit is given back
           IF s.mustCancel[u] THEN TaskDone(SemRelease(s), u, "cancelled")
           ELSE TaskDone(SemRelease([s EXCEPT !.results[cell[u].task_id] = SuccessResult]),
                         u, "done_result")
      [] s.pc[u] = "chat_err" ->
           \* lines 92-106
           IF s.mustCancel[u] THEN TaskDone(SemRelease(s), u, "cancelled")
           ELSE TaskDone(SemRelease([s EXCEPT !.results[cell[u].task_id] = FailureResult]),
                         u, "done_result")
      [] s.pc[u] = "chat_cancelled" ->
           \* CancelledError is no Exception: the handler does not run
           TaskDone(SemRelease(s), u, "cancelled")
      [] OTHER -> s

StepPositions ==
    {"pending", "sem_cancelled", "sem_granted", "chat_ok", "chat_err", "chat_cancelled"}

Install(o) ==
    /\ pc' = o.pc
    /\ semValue' = o.semValue
    /\ semWaiters' = o.semWaiters
    /\ ready' = o.ready
    /\ running' = o.running
    /\ results' = o.results
    /\ mustCancel' = o.mustCancel

\* The loop runs the callback at the head of its queue: a step of task u.
TaskStep(u) ==
    /\ UNCHANGED shellVars
    /\ running = {}
    /\ ready # << >>
    /\ Head(ready) = StepOf(u)
    /\ pc[u] \in StepPositions
    /\ Install(StepFrom(Cur(Tail(ready)), u))
    /\ UNCHANGED <<capacity, agents, nTasks, cell, submitted, handleId, sd, lastCall>>

\* The coroutine that has just entered the gate goes on, in the same callback,
\* into _run_agent(agent_id, task).
TaskBody(u) ==
    /\ UNCHANGED shellVars
    /\ running = {u}
    /\ pc[u] = "in_gate"
    /\ LET s == [Cur(ready) EXCEPT !.running = {u}] IN
       IF RunAgent(cell[u]) = "await_chat"
       THEN Install([s EXCEPT !.pc[u] = "awaiting_chat", !.running = {}])
       ELSE Install(TaskDone(SemRelease(s), u, "done_exc"))
    /\ UNCHANGED <<capacity, agents, nTasks, cell, submitted, handleId, sd, lastCall>>

\* The reply to self.ollama_client.chat arrives (ok) or the call fails.  Only
\* a body suspended at line 76 can receive it.  No body ever is (NoBodyReachesChat),
\* so the step is left out of Next.
ChatCompletes(u, ok) ==
    /\ UNCHANGED shellVars
    /\ running = {}
    /\ pc[u] = "awaiting_chat"
    /\ pc' = [pc EXCEPT ![u] = IF ok THEN "chat_ok" ELSE "chat_err"]
    /\ ready' = Append(ready, StepOf(u))
    /\ UNCHANGED <<capacity, agents, results, semValue, semWaiters, nTasks,
                   mustCancel, cell, submitted, handleId, running, sd, lastCall>>

(***************************************************************************)
(* shutdown                                                                *)
(***************************************************************************)

\* asyncio.Task.cancel() on a task that is not done
Cancel(s, u) ==
    CASE s.pc[u] = "sem_wait" ->
           [s EXCEPT !.pc[u] = "sem_cancelled", !.ready = Append(@, StepOf(u))]
      [] s.pc[u] = "awaiting_chat" ->
           [s EXCEPT !.pc[u] = "chat_cancelled", !.ready = Append(@, StepOf(u))]
      [] OTHER -> [s EXCEPT !.mustCancel[u] = TRUE]

\* a shutdown that forgets to clear the handle registry
KeptAgents == agents

\* self.agents.clear()
ClearedAgents == << >>

\* self.results.clear()
ClearedResults == [t \in AllTaskIds |-> NoResult]

ShutdownEnded(outcome, exc, g) ==
    [NoCall EXCEPT !.op = "shutdown", !.outcome = outcome, !.exc = exc,
                   !.pre = g.pre, !.cancels = g.cancels, !.second = g.second]

\* The for loop of shutdown from item `from` of self.agents.items(), whose
\* iterator was created when the dict had `size` entries: the iterator raises
\* RuntimeError if the dict has changed size; the first task that is not done
\* is cancelled and awaited; after the last item both registries are cleared.
ShutdownFrom(from, size, g, rdy) ==
    IF Len(agents) # size
    THEN /\ sd' = SdIdle
         /\ lastCall' = ShutdownEnded("raised", "RuntimeError", g)
         /\ ready' = rdy
         /\ UNCHANGED <<agents, results, pc, mustCancel>>
    ELSE LET nd == {i \in from..Len(agents) : ~Done(agents[i])} IN
         IF nd = {}
         THEN /\ agents' = ClearedAgents
              /\ results' = ClearedResults
              /\ sd' = SdIdle
              /\ lastCall' = ShutdownEnded("returned", "none", g)
              /\ ready' = rdy
              /\ UNCHANGED <<pc, mustCancel>>
         ELSE LET i == Min(nd)
                  c == Cancel(Cur(rdy), agents[i])
              IN /\ pc' = c.pc
                 /\ mustCancel' = c.mustCancel
                 /\ ready' = c.ready
                 /\ sd' = [pc |-> "awaiting", pos |-> i, size |-> size, on |-> agents[i],
                           pre |-> g.pre, cancels |-> g.cancels + 1, second |-> g.second]
                 /\ UNCHANGED <<agents, results, lastCall>>

\* A caller invokes shutdown(); it runs until its first `await task`.
\* One shutdown() is in flight at a time (main.py calls it once, from the
\* lifespan hook).
ShutdownCall ==
    /\ UNCHANGED shellVars
    /\ running = {}
    /\ sd.pc = "idle"
    /\ ShutdownFrom(1, Len(agents),
                    [pre |-> {agents[i] : i \in {j \in DOMAIN agents : ~Done(agents[j])}},
                     cancels |-> 0,
                     second |-> lastCall.op = "shutdown" /\ lastCall.outcome = "returned"],
                    ready)
    /\ UNCHANGED <<capacity, semValue, semWaiters, nTasks, cell, submitted, handleId, running>>

\* The awaited task is done and the loop resumes shutdown(): `await task`
\* raises what the task ended with; only CancelledError is caught.
ShutdownResume ==
    /\ UNCHANGED shellVars
    /\ running = {}
    /\ ready # << >>
    /\ Head(ready) = WakeupBy(sd.on)
    /\ sd.pc = "awaiting"
    /\ IF pc[sd.on] = "done_exc"
       THEN /\ sd' = SdIdle
            /\ lastCall' = ShutdownEnded("raised", "AttributeError", sd)
            /\ ready' = Tail(ready)
            /\ UNCHANGED <<agents, results, pc, mustCancel>>
       ELSE ShutdownFrom(sd.pos + 1, sd.size, sd, Tail(ready))
    /\ UNCHANGED <<capacity, semValue, semWaiters, nTasks, cell, submitted, handleId, running>>

(***************************************************************************)
(* ShellExecutor.execute                                                   *)
(***************************************************************************)

MaxTimeout == 2

\* settings.ollama_timeout
ollama_timeout == 300

\* request.timeout: Optional[int]; None is {} and the integer t is {t}
Timeouts == {{}} \cup {{t} : t \in 0..MaxTimeout}

\* request.cwd: a directory that exists, or one that does not
Cwds == {".", "/nonexistent"}

\* the fields of ExecutionRequest that execute reads
Requests == [sandbox : BOOLEAN, timeout : Timeouts, cwd : Cwds]

NoRequest == [sandbox |-> FALSE, timeout |-> {}, cwd |-> "."]

\* exit statuses of a process that ends by itself / of a container
ExitCodes == {0, 1}

\* returncode of a process ended by SIGKILL
KilledCode == -9

\* `process`: state none (not spawned), alive, zombie (dead, not yet waited
\* for), reaped (returncode known to the loop), closed (pipes closed and
\* transport closed, transport._proc is None)
NoProcess == [state |-> "none", returncode |-> {}]

\* exceptions, with what str(e) gives
NoExc == [type |-> "none", msg |-> ""]

CancelledError == [type |-> "CancelledError", msg |-> ""]

FileNotFoundError == [type |-> "FileNotFoundError", msg |-> "[Errno 2] No such file or directory"]

ProcessLookupError == [type |-> "ProcessLookupError", msg |-> ""]

ImportError == [type |-> "ModuleNotFoundError", msg |-> "No module named 'docker'"]

DockerException == [type |-> "DockerException", msg |-> "Error while fetching server API version"]

\* f"Command timed out after {timeout} seconds"
TimeoutMessage(t) == "Command timed out after " \o ToString(t) \o " seconds"

TimeoutError(t) == [type |-> "TimeoutError", msg |-> TimeoutMessage(t)]

\* str(e)
Str(e) == e.msg

\* request.timeout or settings.ollama_timeout
EffectiveTimeout(req) ==
    IF req.timeout = {} \/ req.timeout = {0}
    THEN ollama_timeout
    ELSE CHOOSE t \in req.timeout : TRUE

\* ExecutionResult
NoExecutionResult ==
    [present |-> FALSE, exit_code |-> 0, stdout |-> "", stderr |-> "",
     duration |-> 0, pid |-> {}]

\* the result built at lines 117-124
NormalResult(proc, d) ==
    [present |-> TRUE, exit_code |-> CHOOSE c \in proc.returncode : TRUE,
     stdout |-> "stdout", stderr |-> "stderr", duration |-> d, pid |-> {"pid"}]

\* an error result that still carries the pid of the process
ErrorResultWithPid(e, d) ==
    [present |-> TRUE, exit_code |-> -1, stdout |-> "", stderr |-> Str(e),
     duration |-> d, pid |-> {"pid"}]

\* the result built at lines 130-136
ErrorResult(e, d) ==
    [present |-> TRUE, exit_code |-> -1, stdout |-> "", stderr |-> Str(e),
     duration |-> d, pid |-> {}]

\* a container result that reports the logs as stderr
ContainerResultLogsInStderr(status) ==
    [present |-> TRUE, exit_code |-> status, stdout |-> "", stderr |-> "logs",
     duration |-> 0, pid |-> {}]

\* the result built by _execute_in_container
ContainerResult(status) ==
    [present |-> TRUE, exit_code |-> status, stdout |-> "logs", stderr |-> "",
     duration |-> 0, pid |-> {}]

\* How a container run can go: docker cannot be imported, the daemon call
\* fails, or the container runs and ends with a status.
ContainerOutcomes ==
    {[exc |-> ImportError, status |-> {}], [exc |-> DockerException, status |-> {}]}
        \cup {[exc |-> NoExc, status |-> {c}] : c \in ExitCodes}

\* `except Exception as e` catches nothing
ExceptNothing(e) == FALSE
\* `except Exception as e` (line 126): CancelledError is a BaseException
ExceptException(e) == e.type # "CancelledError"

\* An exception e leaves the try block of execute, d seconds into the call.
RaiseAfter(e, d) ==
    /\ executeExc' = e
    /\ IF ExceptException(e)
       THEN /\ executePc' = "returned"
            /\ result' = ErrorResult(e, d)
       ELSE /\ executePc' = "raised"
            /\ result' = NoExecutionResult

Raise(e) == RaiseAfter(e, elapsed)

ExecutorInit ==
    /\ request = NoRequest
    /\ executePc = "idle"
    /\ process = NoProcess
    /\ timeout = {}
    /\ elapsed = 0
    /\ atTimeout = "unfired"
    /\ result = NoExecutionResult
    /\ executeExc = NoExc
    /\ backend = "none"

\* a branch that looks at the request only
SandboxOnly(req) == req.sandbox

\* if request.sandbox and settings.use_containers (line 86)
UseContainer(req) == req.sandbox /\ use_containers

\* execute(request) is called and runs up to its first await.  The container
\* branch has no await inside: it runs to its end in this one step.
Execute(req) ==
    /\ executePc \in {"idle", "returned", "raised"}
    /\ request' = req
    /\ process' = NoProcess
    /\ timeout' = {}
    /\ elapsed' = 0
    /\ atTimeout' = "unfired"
    /\ IF UseContainer(req)
       THEN /\ backend' = "container"
            /\ \E o \in ContainerOutcomes :
                 IF o.exc # NoExc
                 THEN RaiseAfter(o.exc, 0)
                 ELSE /\ executePc' = "returned"
                      /\ executeExc' = NoExc
                      /\ result' = ContainerResult(CHOOSE c \in o.status : TRUE)
       ELSE /\ backend' = "none"
            /\ executePc' = "spawning"
            /\ executeExc' = NoExc
            /\ result' = NoExecutionResult
    /\ UNCHANGED <<managerVars, streamVars, buildVars, use_containers>>

\* create_subprocess_exec returns or raises (lines 91-102)
Spawned ==
    /\ executePc = "spawning"
    /\ IF request.cwd = "."
       THEN /\ process' = [state |-> "alive", returncode |-> {}]
            /\ backend' = "native"
            /\ timeout' = {EffectiveTimeout(request)}
            /\ executePc' = "communicating"
            /\ UNCHANGED <<result, executeExc>>
       ELSE /\ Raise(FileNotFoundError)
            /\ UNCHANGED <<process, backend, timeout>>
    /\ UNCHANGED <<managerVars, streamVars, buildVars, use_containers, request, elapsed, atTimeout>>

\* one second passes while wait_for is pending
Tick ==
    /\ executePc = "communicating"
    /\ elapsed < EffectiveTimeout(request)
    /\ elapsed' = elapsed + 1
    /\ UNCHANGED <<managerVars, streamVars, buildVars, use_containers, request, executePc, process, timeout,
                   atTimeout, result, executeExc, backend>>

\* the process ends by itself
ProcessExits(code) ==
    /\ process.state = "alive"
    /\ process' = [state |-> "zombie", returncode |-> {code}]
    /\ UNCHANGED <<managerVars, streamVars, buildVars, use_containers, request, executePc, timeout, elapsed,
                   atTimeout, result, executeExc, backend>>

\* the loop's child watcher waits for the dead process
Reaped ==
    /\ process.state = "zombie"
    /\ process' = [process EXCEPT !.state = "reaped"]
    /\ UNCHANGED <<managerVars, streamVars, buildVars, use_containers, request, executePc, timeout, elapsed,
                   atTimeout, result, executeExc, backend>>

\* both pipes are at end of file: the transport closes and drops its process
TransportClosed ==
    /\ process.state = "reaped"
    /\ process' = [process EXCEPT !.state = "closed"]
    /\ UNCHANGED <<managerVars, streamVars, buildVars, use_containers, request, executePc, timeout, elapsed,
                   atTimeout, result, executeExc, backend>>

\* process.communicate() completes inside wait_for (lines 104-124)
CommunicateDone ==
    /\ executePc = "communicating"
    /\ process.state \in {"reaped", "closed"}
    /\ executePc' = "returned"
    /\ result' = NormalResult(process, elapsed)
    /\ UNCHANGED <<managerVars, streamVars, buildVars, use_containers, request, process, timeout, elapsed,
                   atTimeout, executeExc, backend>>

\* wait_for's timer fires with communicate() still pending: wait_for cancels
\* it and waits for the cancellation before it raises asyncio.TimeoutError
TimeoutFires ==
    /\ executePc = "communicating"
    /\ {elapsed} = timeout
    /\ executePc' = "timing_out"
    /\ atTimeout' = process.state
    /\ UNCHANGED <<managerVars, streamVars, buildVars, use_containers, request, process, timeout, elapsed,
                   result, executeExc, backend>>

\* process.kill(): the transport raises ProcessLookupError once it is closed;
\* Popen.send_signal polls first and sends nothing to a process that is dead
SendKill(proc) ==
    CASE proc.state = "alive" -> [state |-> "zombie", returncode |-> {KilledCode}]
      [] proc.state = "zombie" -> [proc EXCEPT !.state = "reaped"]
      [] OTHER -> proc

\* except asyncio.TimeoutError: process.kill(), up to `await process.wait()`
\* (lines 109-111)
KillOnTimeout ==
    /\ executePc = "timing_out"
    /\ IF process.state = "closed"
       THEN /\ Raise(ProcessLookupError)
            /\ UNCHANGED process
       ELSE /\ process' = SendKill(process)
            /\ executePc' = "reaping"
            /\ UNCHANGED <<result, executeExc>>
    /\ UNCHANGED <<managerVars, streamVars, buildVars, use_containers, request, timeout, elapsed, atTimeout,
                   backend>>

\* process.wait() returns; raise TimeoutError(...) (lines 111-113)
WaitReturns ==
    /\ executePc = "reaping"
    /\ process.state \in {"reaped", "closed"}
    /\ Raise(TimeoutError(CHOOSE t \in timeout : TRUE))
    /\ UNCHANGED <<managerVars, streamVars, buildVars, use_containers, request, process, timeout, elapsed,
                   atTimeout, backend>>

\* the places where execute is suspended
ExecuteAwaits == {"spawning", "communicating", "timing_out", "reaping"}

\* The task awaiting execute() is cancelled: CancelledError is thrown in at
\* the await the coroutine is suspended on.
CancelExecute ==
    /\ executePc \in ExecuteAwaits
    /\ Raise(CancelledError)
    /\ UNCHANGED <<managerVars, streamVars, buildVars, use_containers, request, process, timeout, elapsed,
                   atTimeout, backend>>

(***************************************************************************)
(* ShellExecutor.stream_output                                             *)
(***************************************************************************)

MaxLines == 3

\* lines a pipe and its StreamReader hold before the writer blocks
PipeCap == 1

Fds == {"stdout", "stderr"}

Scripts == UNION {[1..n -> Fds] : n \in 0..MaxLines}

\* at most one line of a script is longer than the StreamReader limit
Overlongs == {{}} \cup {{i} : i \in 1..MaxLines}

\* the i-th line the command prints
Line(sc, i) == [fd |-> sc[i], no |-> i]

\* The bytes of a line reach the reader's buffer in one piece ("whole") or in
\* two ("head", then "tail", which ends with the newline).
Fragment(sc, i, part) == [fd |-> sc[i], no |-> i, part |-> part]

\* line.decode('utf-8', errors='replace') of the bytes readline() returned:
\* the chunk still tells which pieces of which line it is made of
Decode(line) ==
    [kind |-> "line", fd |-> line[1].fd, no |-> line[1].no,
     parts |-> [i \in DOMAIN line |-> line[i].part], text |-> ""]

\* f"Error: {e}"
ErrorChunk(e) ==
    [kind |-> "error", fd |-> "none", no |-> 0, parts |-> << >>,
     text |-> "Error: " \o Str(e)]

StreamInit ==
    /\ script = << >>
    /\ overlong = {}
    /\ streamExc = NoExc
    /\ streamCwd = "."
    /\ written = 0
    /\ stdoutBuf = << >>
    /\ stderrBuf = << >>
    /\ streamProc = "none"
    /\ streamPc = "idle"
    /\ chunks = << >>

\* stream_output(request) is called and iterated: it runs up to
\* `await create_subprocess_exec(...)`
StreamOutput(sc, long, cwd) ==
    /\ streamPc = "idle"
    /\ script' = sc
    /\ overlong' = long \cap DOMAIN sc
    /\ streamCwd' = cwd
    /\ streamPc' = "spawning"
    /\ UNCHANGED <<managerVars, executeVars, buildVars, streamExc, written, stdoutBuf, stderrBuf,
                   streamProc, chunks>>

\* StreamReader.readline() on a line longer than the reader's limit
ValueError == [type |-> "ValueError", msg |-> "Separator is not found, and chunk exceed the limit"]

\* `except Exception as e` catches nothing
StreamExceptNothing(e) == FALSE
\* `except Exception as e` (line 214): CancelledError is a BaseException
StreamExcept(e) == e.type # "CancelledError"

\* An exception e leaves the try block of stream_output (lines 214-216).
StreamRaise(e) ==
    /\ streamExc' = e
    /\ IF StreamExcept(e)
       THEN /\ chunks' = Append(chunks, ErrorChunk(e))
            /\ streamPc' = "ended"
       ELSE /\ streamPc' = "raised"
            /\ UNCHANGED chunks

\* create_subprocess_exec returns or raises (lines 186-194, 214-216)
StreamSpawned ==
    /\ streamPc = "spawning"
    /\ IF streamCwd = "."
       THEN /\ streamProc' = "alive"
            /\ streamPc' = "read_stdout"
            /\ UNCHANGED <<chunks, streamExc>>
       ELSE /\ StreamRaise(FileNotFoundError)
            /\ UNCHANGED streamProc
    /\ UNCHANGED <<managerVars, executeVars, buildVars, script, overlong, streamCwd, written,
                   stdoutBuf, stderrBuf>>

\* complete lines in a buffer
Lines(buf) == Cardinality({i \in DOMAIN buf : buf[i].part \in {"whole", "tail"}})

\* the first piece of line i is in the buffer, the rest is still to come
MidLine(buf, i) ==
    buf # << >> /\ buf[Len(buf)].no = i /\ buf[Len(buf)].part = "head"

\* The process writes to buf: the rest of the line it is in the middle of;
\* or, if the pipe is not full, the next line, in one piece or its first half.
WritesTo(buf) ==
    IF MidLine(buf, written + 1)
    THEN {[buf |-> Append(buf, Fragment(script, written + 1, "tail")), done |-> 1]}
    ELSE IF Lines(buf) < PipeCap
    THEN {[buf |-> Append(buf, Fragment(script, written + 1, "whole")), done |-> 1],
          [buf |-> Append(buf, Fragment(script, written + 1, "head")), done |-> 0]}
    ELSE {}

\* the process prints (part of) its next line; a full pipe blocks it
ProcessWrites ==
    /\ streamProc = "alive"
    /\ written < Len(script)
    /\ IF script[written + 1] = "stdout"
       THEN /\ \E w \in WritesTo(stdoutBuf) :
                 /\ stdoutBuf' = w.buf
                 /\ written' = written + w.done
            /\ UNCHANGED stderrBuf
       ELSE /\ \E w \in WritesTo(stderrBuf) :
                 /\ stderrBuf' = w.buf
                 /\ written' = written + w.done
            /\ UNCHANGED stdoutBuf
    /\ UNCHANGED <<managerVars, executeVars, buildVars, script, overlong, streamExc,
                   streamCwd, streamProc, streamPc, chunks>>

\* the process has printed everything and exits: both pipes reach end of file
StreamProcessExits ==
    /\ streamProc = "alive"
    /\ written = Len(script)
    /\ streamProc' = "exited"
    /\ UNCHANGED <<managerVars, executeVars, buildVars, script, overlong, streamExc, streamCwd, written, stdoutBuf,
                   stderrBuf, streamPc, chunks>>

\* the loop's child watcher sets process.returncode
StreamReaped ==
    /\ streamProc = "exited"
    /\ streamProc' = "reaped"
    /\ UNCHANGED <<managerVars, executeVars, buildVars, script, overlong, streamExc, streamCwd, written, stdoutBuf,
                   stderrBuf, streamPc, chunks>>

\* a complete line is buffered
HasLine(buf) ==
    buf # << >> /\ (Head(buf).part = "whole" \/ (Len(buf) >= 2 /\ buf[2].part = "tail"))

\* readline() raises ValueError on a line longer than the reader's limit
ReadRaises(buf) == buf # << >> /\ Head(buf).no \in overlong

\* StreamReader.readline() can return: a complete line is buffered, the
\* buffer is over its limit, or the pipe is at end of file
CanRead(buf) == HasLine(buf) \/ ReadRaises(buf) \/ streamProc \in {"exited", "reaped"}

\* a read that returns whatever piece is buffered: read(n)
ReadAvailable(buf) == [line |-> <<Head(buf)>>, rest |-> Tail(buf)]

\* readline() with a complete line buffered: the pieces up to the newline
ReadLine(buf) ==
    IF Head(buf).part = "whole"
    THEN [line |-> <<Head(buf)>>, rest |-> Tail(buf)]
    ELSE [line |-> <<buf[1], buf[2]>>, rest |-> Tail(Tail(buf))]

\* Where the loop goes after a readline: on after a line; on after b'' while
\* returncode is None; out of the loop (break) after b'' with returncode set
AfterRead(buf, on) ==
    IF HasLine(buf) THEN on
    ELSE IF streamProc = "reaped" THEN "ended"
    ELSE on

\* line = await process.stdout.readline() and what follows (lines 198-202)
ReadStdout ==
    /\ streamPc = "read_stdout"
    /\ CanRead(stdoutBuf)
    /\ IF ReadRaises(stdoutBuf)
       THEN /\ StreamRaise(ValueError)
            /\ stdoutBuf' = Tail(stdoutBuf)
       ELSE /\ streamPc' = AfterRead(stdoutBuf, "read_stderr")
            /\ UNCHANGED streamExc
            /\ IF HasLine(stdoutBuf)
               THEN /\ chunks' = Append(chunks, Decode(ReadLine(stdoutBuf).line))
                    /\ stdoutBuf' = ReadLine(stdoutBuf).rest
               ELSE UNCHANGED <<chunks, stdoutBuf>>
    /\ UNCHANGED <<managerVars, executeVars, buildVars, script, overlong, streamCwd, written,
                   stderrBuf, streamProc>>

\* line = await process.stderr.readline() and what follows (lines 205-209)
ReadStderr ==
    /\ streamPc = "read_stderr"
    /\ CanRead(stderrBuf)
    /\ IF ReadRaises(stderrBuf)
       THEN /\ StreamRaise(ValueError)
            /\ stderrBuf' = Tail(stderrBuf)
       ELSE /\ streamPc' = AfterRead(stderrBuf, "sleeping")
            /\ UNCHANGED streamExc
            /\ IF HasLine(stderrBuf)
               THEN /\ chunks' = Append(chunks, Decode(ReadLine(stderrBuf).line))
                    /\ stderrBuf' = ReadLine(stderrBuf).rest
               ELSE UNCHANGED <<chunks, stderrBuf>>
    /\ UNCHANGED <<managerVars, executeVars, buildVars, script, overlong, streamCwd, written,
                   stdoutBuf, streamProc>>

\* await asyncio.sleep(0.1) is over (line 212)
Slept ==
    /\ streamPc = "sleeping"
    /\ streamPc' = "read_stdout"
    /\ UNCHANGED <<managerVars, executeVars, buildVars, script, overlong, streamExc, streamCwd, written, stdoutBuf,
                   stderrBuf, streamProc, chunks>>

(***************************************************************************)
(* ShellExecutor._build_command                                            *)
(***************************************************************************)

\* platform.system().lower()
Platforms == {"windows", "linux"}

\* _get_shell
GetShell(plat) == IF plat = "windows" THEN "powershell.exe" ELSE "/bin/bash"

\* every field of ExecutionRequest; None is {}
AllBuildRequests ==
    [command : {"ls", "id"}, args : {<< >>, <<"-l">>}, cwd : {{}, {"/tmp"}},
     env : {{}, {"K=V"}}, timeout : {{}, {1}}, pty : BOOLEAN, elevated : BOOLEAN,
     sandbox : BOOLEAN]

\* the fields of r, other than command and pty, that differ from their default
NonDefault(r) ==
    {f \in {"args", "cwd", "env", "timeout", "elevated", "sandbox"} :
        \/ f = "args" /\ r.args # << >>
        \/ f = "cwd" /\ r.cwd # {}
        \/ f = "env" /\ r.env # {}
        \/ f = "timeout" /\ r.timeout # {}
        \/ f = "elevated" /\ r.elevated
        \/ f = "sandbox" /\ r.sandbox}

\* the requests that are built: at most one such field is set in each
BuildRequests == {r \in AllBuildRequests : Cardinality(NonDefault(r)) <= 1}

NoBuildRequest ==
    [command |-> "", args |-> << >>, cwd |-> {}, env |-> {}, timeout |-> {},
     pty |-> FALSE, elevated |-> FALSE, sandbox |-> FALSE]

\* a builder that goes through `script` for a pty on every platform
BuildCommandPtyFirst(plat, sh, req) ==
    IF req.pty
    THEN <<"script", "-qec", req.command, "/dev/null">>
    ELSE IF plat = "windows"
         THEN <<"powershell.exe", "-NoProfile", "-Command", req.command>>
         ELSE <<sh, "-c", req.command>>

\* a builder that appends request.args to the vector
BuildCommandWithArgs(plat, sh, req) ==
    (IF plat = "windows"
     THEN <<"powershell.exe", "-NoProfile", "-Command", req.command>>
     ELSE IF req.pty
          THEN <<"script", "-qec", req.command, "/dev/null">>
          ELSE <<sh, "-c", req.command>>) \o req.args

\* _build_command(request)
BuildCommand(plat, sh, req) ==
    IF plat = "windows"
    THEN IF req.pty
         THEN <<"powershell.exe", "-NoProfile", "-Command", req.command>>
         ELSE <<"powershell.exe", "-NoProfile", "-Command", req.command>>
    ELSE IF req.pty
         THEN <<"script", "-qec", req.command, "/dev/null">>
         ELSE <<sh, "-c", req.command>>

\* ShellExecutor.__init__ on platform plat, before any call
BuildInit(plat) ==
    /\ platform = plat
    /\ shell = GetShell(plat)
    /\ buildRequest = NoBuildRequest
    /\ cmd = << >>
    /\ otherRequest = NoBuildRequest
    /\ otherCmd = << >>

\* cmd = self._build_command(request)
BuildCommandCall(req) ==
    /\ buildRequest' = req
    /\ cmd' = BuildCommand(platform, shell, req)
    /\ otherRequest' = buildRequest
    /\ otherCmd' = cmd
    /\ UNCHANGED <<managerVars, executeVars, streamVars, platform, shell>>

(***************************************************************************)
(* The specification                                                       *)
(***************************************************************************)

SwarmInputs == UNION {[1..n -> TaskIds] : n \in 0..MaxSwarm}

\* Nothing in the manager calls the executor (_run_agent never uses
\* self.shell_executor), so each component is checked on its own.
Init ==
    /\ ManagerInit
    /\ ExecutorInit
    /\ use_containers = TRUE
    /\ StreamInit
    /\ BuildInit("linux")

Next ==
    \/ \E tid \in TaskIds : CreateAgent(tid)
    \/ \E ts \in SwarmInputs : RunSwarm(ts)
    \/ \E c \in Commands, sandbox \in BOOLEAN : ExecuteCommand(c, sandbox)
    \/ \E u \in Uids : TaskStep(u)
    \/ \E u \in Uids : TaskBody(u)
    \/ ShutdownCall
    \/ ShutdownResume

Spec == Init /\ [][Next]_vars

InitExecute ==
    /\ ManagerInit
    /\ ExecutorInit
    /\ use_containers \in BOOLEAN
    /\ StreamInit
    /\ BuildInit("linux")

NextExecute ==
    \/ \E req \in Requests : Execute(req)
    \/ Spawned
    \/ Tick
    \/ \E code \in ExitCodes : ProcessExits(code)
    \/ Reaped
    \/ TransportClosed
    \/ CommunicateDone
    \/ TimeoutFires
    \/ KillOnTimeout
    \/ WaitReturns
    \/ CancelExecute

SpecExecute == InitExecute /\ [][NextExecute]_vars

NextStream ==
    \/ \E sc \in Scripts, long \in Overlongs, cwd \in Cwds : StreamOutput(sc, long, cwd)
    \/ StreamSpawned
    \/ ProcessWrites
    \/ StreamProcessExits
    \/ StreamReaped
    \/ ReadStdout
    \/ ReadStderr
    \/ Slept

SpecStream == Init /\ [][NextStream]_vars

InitBuild ==
    /\ ManagerInit
    /\ capacity = MaxCapacity
    /\ ExecutorInit
    /\ use_containers = TRUE
    /\ StreamInit
    /\ \E plat \in Platforms : BuildInit(plat)

NextBuild == \E req \in BuildRequests : BuildCommandCall(req)

SpecBuild == InitBuild /\ [][NextBuild]_vars

TypeOK ==
    /\ capacity \in 0..MaxCapacity
    /\ agents \in Seq(Uids)
    /\ nTasks \in 0..MaxTasks
    /\ semValue \in 0..MaxCapacity
    /\ running \in {{}} \cup {{u} : u \in Uids}
    /\ \A i \in DOMAIN ready : ready[i].of \in Uids


(***************************************************************************)
(* Properties                                                              *)
(***************************************************************************)

\* task bodies inside `async with self.semaphore`, each holding a permit
RunningCount == Cardinality({u \in Uids : pc[u] \in InGate})

\* No reply of the model call is ever awaited and nothing is ever stored in
\* self.results: every body leaves _run_agent with AttributeError before it
\* reaches self.ollama_client.chat (so ChatCompletes is never enabled).
NoBodyReachesChat ==
    /\ \A u \in Uids : pc[u] \notin {"awaiting_chat", "chat_ok", "chat_err",
                                     "chat_cancelled", "done_result"}
    /\ results = ClearedResults

\* C1: whatever the number of submitted tasks, the number of task bodies
\* holding a slot of the gate never exceeds settings.max_concurrent_agents.
GateBoundsRunning == RunningCount <= capacity

\* C1 witness: more handles registered than the gate has slots, every slot
\* taken by a running body.
GateBoundsRunningWitness ==
    /\ capacity >= 1
    /\ Len(agents) > capacity
    /\ RunningCount = capacity

\* C2: create_agent registers exactly one handle and returns its handle id.
CreateAgentReturnsHandleId ==
    lastCall.op = "create_agent" =>
        /\ lastCall.outcome = "returned"
        /\ lastCall.registered = 1

\* C3: run_swarm returns one result per input task, the result at index i
\* carrying the task_id of tasks[i].
SwarmReturnsOneResultPerTask ==
    lastCall.op = "run_swarm" =>
        /\ lastCall.outcome = "returned"
        /\ lastCall.value = lastCall.tasks

\* C4: once run_swarm has ended, every task of the swarm has been dispatched
\* on a handle of its own, whatever happened to its siblings.
SwarmSiblingsAllRun ==
    (lastCall.op = "run_swarm" /\ lastCall.outcome \in {"returned", "raised"}) =>
        lastCall.registered = Len(lastCall.tasks)

\* C5: every get_status snapshot an observer can take satisfies
\* active_agents + completed_tasks + failed_tasks = total_agents.
StatusCountsAddUp ==
    running = {} =>
        GetStatus.active_agents + GetStatus.completed_tasks + GetStatus.failed_tasks
            = GetStatus.total_agents

\* C7: when shutdown returns, every handle that was not terminal when it was
\* called has been sent a cancellation and has ended cancelled.
ShutdownCancelsEveryPending ==
    (lastCall.op = "shutdown" /\ lastCall.outcome = "returned") =>
        /\ lastCall.cancels = Cardinality(lastCall.pre)
        /\ \A u \in lastCall.pre : pc[u] = "cancelled"

\* C8: a shutdown called right after a shutdown that has returned finds
\* nothing to cancel, returns without an error and leaves both registries
\* empty.
ShutdownIdempotent ==
    (lastCall.op = "shutdown" /\ lastCall.second) =>
        /\ lastCall.outcome = "returned"
        /\ lastCall.cancels = 0
        /\ lastCall.pre = {}
        /\ agents = << >>
        /\ results = [t \in AllTaskIds |-> NoResult]

\* C8 witness: a second shutdown has returned after a first one that had a
\* handle to cancel.
ShutdownIdempotentWitness ==
    /\ lastCall.op = "shutdown"
    /\ lastCall.second
    /\ lastCall.outcome = "returned"
    /\ \E u \in Uids : pc[u] = "cancelled"

\* C9: shutdown never raises, and when it has ended both registries are empty.
ShutdownNeverRaises ==
    lastCall.op = "shutdown" =>
        /\ lastCall.outcome = "returned"
        /\ agents = << >>
        /\ results = [t \in AllTaskIds |-> NoResult]


\* The backend _run_agent hands the task to: its only call is
\* self.ollama_client.chat (line 76); self.shell_executor is never used.
RoutedBackend(taskArg) ==
    IF RunAgent(taskArg) = "await_chat" THEN "model" ELSE "none"

\* C11: every registered handle whose asyncio task is done has a TaskResult
\* stored under its task id.
TerminalHandleHasResult ==
    running = {} =>
        \A i \in DOMAIN agents :
            Done(agents[i]) => results[submitted[agents[i]]].present

\* C12: no public operation raises to its caller because of what happens to a
\* submitted task.
NoFaultEscapes ==
    lastCall.op \in {"create_agent", "run_swarm", "execute_command"} =>
        lastCall.exc = "none"

\* C14: a task created by execute_command whose body has run was handed to
\* the shell executor.
CommandTasksUseShell ==
    \A u \in Uids :
        (submitted[u] \in {CmdTaskId(c) : c \in Commands} /\ pc[u] \in {"done_exc", "done_result"})
            => RoutedBackend(cell[u]) = "shell"


\* the error texts that say the command timed out
TimedOutTexts == {TimeoutMessage(t) : t \in 0..ollama_timeout}

\* process is dead and has been waited for
ProcessGone == process.state \in {"reaped", "closed"}

\* C15: when execute returns after its timer fired on a live process, the
\* process is dead and reaped and the result has exit_code -1 and an error
\* text saying the command timed out.
TimeoutKillsThenReports ==
    (executePc = "returned" /\ atTimeout = "alive") =>
        /\ ProcessGone
        /\ result.exit_code = -1
        /\ result.stderr \in TimedOutTexts

\* the spawn or the container backend has failed in the current call
BackendFailed ==
    executeExc.type \in {"FileNotFoundError", "ModuleNotFoundError", "DockerException"}

\* C16: a spawn failure or a container-backend failure is never raised to the
\* caller: execute returns a result with exit_code -1, empty stdout and the
\* error's description in stderr.
BackendFailureIsReturned ==
    BackendFailed =>
        /\ executePc = "returned"
        /\ result.present
        /\ result.exit_code = -1
        /\ result.stdout = ""
        /\ result.stderr = Str(executeExc)
        /\ result.stderr # ""

\* create_subprocess_exec has failed and execute has returned the error result
BackendFailureIsReturnedWitness ==
    /\ executeExc = FileNotFoundError
    /\ executePc = "returned"
    /\ result = ErrorResult(FileNotFoundError, 0)

\* C17: whenever execute has ended after spawning a process, that process is
\* dead and reaped.
EndedExecuteLeavesNoProcess ==
    (executePc \in {"returned", "raised"} /\ backend = "native") => ProcessGone


\* the lines of the script printed on fd, in emission order
Emitted(fd) == SelectSeq([i \in 1..Len(script) |-> Line(script, i)], LAMBDA l : l.fd = fd)

\* the lines of fd among the chunks, as yielded
Yielded(fd) ==
    LET c == SelectSeq(chunks, LAMBDA x : x.kind = "line" /\ x.fd = fd)
    IN [i \in 1..Len(c) |-> [fd |-> c[i].fd, no |-> c[i].no]]

\* the sequence has ended and none of its chunks is an error chunk
EndedClean ==
    streamPc = "ended" /\ \A i \in DOMAIN chunks : chunks[i].kind # "error"

\* C18: the sequence ends without an error chunk only when both streams are
\* at end of stream with nothing left to deliver and the exit status is known.
StreamEndsDrained ==
    EndedClean =>
        /\ streamProc = "reaped"
        /\ stdoutBuf = << >>
        /\ stderrBuf = << >>

\* C19: for a process that prints k lines and exits, the ended sequence has
\* exactly k chunks, the lines of each stream in emission order.
StreamYieldsEveryLine ==
    EndedClean =>
        /\ Len(chunks) = Len(script)
        /\ \A fd \in Fds : Yielded(fd) = Emitted(fd)

\* C20: the stream never stalls: until the sequence has ended, the process,
\* the loop or the generator can take a step.
StreamNeverStalls ==
    streamPc = "ended" \/ ENABLED NextStream


\* error chunks among what has been yielded
ErrorChunks == {i \in DOMAIN chunks : chunks[i].kind = "error"}

\* C21: an error inside stream_output (spawn failure or read error) is not
\* raised to the consumer: the sequence has ended and its last chunk, and
\* only that one, is the error chunk of that error.
StreamErrorIsFinalChunk ==
    streamExc # NoExc =>
        /\ streamPc = "ended"
        /\ ErrorChunks = {Len(chunks)}
        /\ chunks[Len(chunks)] = ErrorChunk(streamExc)

\* a read error after at least one line chunk has ended the sequence
StreamErrorIsFinalChunkWitness ==
    /\ streamExc = ValueError
    /\ streamPc = "ended"
    /\ Len(chunks) > 1
    /\ chunks[1].kind = "line"


\* C22: the lifecycle of a handle's asyncio task is monotonic: a new task
\* starts pending (not running), it enters the body only with a permit of the
\* gate (taken on entry, or handed to it while it waited), and a task that is
\* done stays as it ended.
LifecycleMonotonic ==
    [][\A u \in Uids :
          /\ (pc[u] = "none" /\ pc'[u] # "none") => pc'[u] = "pending"
          /\ (pc[u] \notin InGate /\ pc'[u] \in InGate) =>
                \/ pc[u] = "sem_granted"
                \/ pc[u] = "pending" /\ semValue > 0 /\ semValue' = semValue - 1
          /\ pc[u] \in Terminal => pc'[u] = pc[u]]_vars

\* one task has ended and another one is running its body with a permit
LifecycleMonotonicWitness ==
    \E u, v \in Uids : pc[u] \in Terminal /\ running = {v} /\ pc[v] = "in_gate"


\* C23: the agent ids made by create_agent over the lifetime of the manager
\* are pairwise distinct, submissions after a shutdown included.
HandleIdsDistinct ==
    \A u, v \in 1..nTasks : u # v => handleId[u] # handleId[v]


\* With at least one permit no task ever waits at the gate: each body leaves
\* _run_agent in the callback that took the permit.
NoWaitWithPermits ==
    capacity >= 1 =>
        /\ semWaiters = << >>
        /\ \A u \in Uids : pc[u] \notin {"sem_wait", "sem_granted", "sem_cancelled"}


\* C25: a task that was cancelled before its body completed has no result
\* with success = true stored under its task id.
CancelledNeverSuccess ==
    \A u \in Uids :
        pc[u] = "cancelled" =>
            ~(results[submitted[u]].present /\ results[submitted[u]].success)

\* shutdown has cancelled a task and is still waiting to go on
CancelledNeverSuccessWitness ==
    \E u \in Uids : pc[u] = "cancelled" /\ sd.pc = "awaiting" /\ sd.on = u


\* C26: no step of the loop both starts a backend call and carries it to its
\* result: between the start of a container run, a subprocess wait or a model
\* call and its end the coroutine is suspended, so that others can run.
BackendCallsYield ==
    [][~(/\ executePc \in {"idle", "returned", "raised"}
         /\ executePc' = "returned"
         /\ backend' = "container"
         /\ result'.stdout = "logs")]_vars

\* C27: execute uses the container backend exactly when request.sandbox and
\* settings.use_containers are both true; a container call spawns no native
\* process, and every other call goes on to spawn one.
ContainerExactlyWhenSandboxed ==
    executePc # "idle" =>
        /\ backend = "container" <=> (request.sandbox /\ use_containers)
        /\ backend = "container" => process = NoProcess
        /\ (~(request.sandbox /\ use_containers) /\ executePc \notin {"spawning", "raised"}
               /\ executeExc # FileNotFoundError)
              => backend = "native" /\ process # NoProcess
        /\ executePc = "raised" => backend \in {"none", "native"}

\* a sandboxed call has run in a container, and no process was spawned
ContainerExactlyWhenSandboxedWitness ==
    /\ executePc = "returned"
    /\ request.sandbox
    /\ use_containers
    /\ backend = "container"
    /\ result.stdout = "logs"


\* C28: get_status counts as active only handles whose body holds a permit,
\* so active_agents never exceeds the capacity of the gate.
ActiveWithinCapacity ==
    running = {} =>
        /\ GetStatus.active_agents <= capacity
        /\ GetStatus.active_agents = RunningCount


\* a handle or a stored result is gone after the step
RegistryShrinks ==
    \/ \E i \in DOMAIN agents : i \notin DOMAIN agents' \/ agents'[i] # agents[i]
    \/ \E t \in AllTaskIds : results[t].present /\ ~results'[t].present

\* the step is the one in which shutdown() returns
ShutdownReturns ==
    /\ lastCall'.op = "shutdown"
    /\ lastCall'.outcome = "returned"
    /\ pc' = pc
    /\ nTasks' = nTasks

\* C29: a registered handle, and a recorded result, stay in their registry
\* until shutdown: no other operation removes one.
RegistryKeptUntilShutdown ==
    [][RegistryShrinks => ShutdownReturns]_vars

\* a handle whose task has ended is still registered after later submissions
RegistryKeptUntilShutdownWitness ==
    /\ Len(agents) >= 2
    /\ Done(agents[1])
    /\ lastCall.op = "execute_command"


\* C30: the timeout execute works with is request.timeout whenever the
\* request gives one (0 included), and the configured default only when the
\* request gives none.
TimeoutIsTheRequested ==
    timeout # {} =>
        timeout = IF request.timeout = {} THEN {ollama_timeout} ELSE request.timeout


\* communicate() completed inside wait_for: the process ran to its own end
\* before the timer fired
RanToCompletion ==
    /\ executeExc = NoExc
    /\ atTimeout = "unfired"
    /\ ProcessGone

VectorIgnoresOtherFields ==
    (/\ buildRequest # NoBuildRequest
     /\ otherRequest # NoBuildRequest
     /\ buildRequest.command = otherRequest.command
     /\ buildRequest.pty = otherRequest.pty) => cmd = otherCmd

\* a request with an argument list and one with the elevated flag, otherwise
\* alike, have given the same vector
VectorIgnoresOtherFieldsWitness ==
    /\ buildRequest.command = "ls"
    /\ otherRequest.command = "ls"
    /\ buildRequest.pty = otherRequest.pty
    /\ buildRequest.args = <<"-l">>
    /\ otherRequest.elevated
    /\ cmd = otherCmd


\* C33: every chunk that is not an error chunk is one whole line of one
\* stream: all the pieces of that line and nothing else, and no line is in
\* two chunks.
ChunkIsOneLine ==
    \A i \in DOMAIN chunks :
        chunks[i].kind = "line" =>
            /\ chunks[i].parts \in {<<"whole">>, <<"head", "tail">>}
            /\ chunks[i].no \in DOMAIN script
            /\ script[chunks[i].no] = chunks[i].fd
            /\ \A j \in DOMAIN chunks :
                  (j # i /\ chunks[j].kind = "line") => chunks[j].no # chunks[i].no

\* a line that arrived in two pieces has been yielded as one chunk, after a
\* chunk of the other stream
ChunkIsOneLineWitness ==
    \E i, j \in DOMAIN chunks :
        /\ chunks[i].kind = "line"
        /\ chunks[j].kind = "line"
        /\ chunks[i].parts = <<"head", "tail">>
        /\ chunks[j].fd # chunks[i].fd


\* C34: permits are conserved on every way out of a task body: the free
\* permits of the semaphore plus the bodies inside the gate are the capacity.
PermitsConserved ==
    semValue + RunningCount = capacity

\* one body has left the gate with an exception, another task was cancelled
\* before it got in, and every permit is free again
PermitsConservedWitness ==
    /\ capacity >= 1
    /\ semValue = capacity
    /\ \E u, v \in Uids : pc[u] = "done_exc" /\ pc[v] = "cancelled"


\* C35: the body dispatched for a handle works on the AgentTask that was
\* passed to create_agent for it.
BodyGetsPassedTask ==
    \A u \in Uids :
        pc[u] \in InGate \cup {"done_exc", "done_result"} =>
            cell[u] = AgentTaskObj(submitted[u])


\* C36: when shutdown has ended, by clearing the registries or by failing,
\* no task that was registered while it was suspended is still pending or
\* running.
ShutdownLeavesNoLateTask ==
    (lastCall.op = "shutdown" /\ lastCall.outcome \in {"returned", "raised"}) =>
        \A u \in 1..nTasks : u \notin lastCall.pre => Done(u)


\* C37: two execute_command calls with the same command give two distinct
\* handles one task_id, and once both bodies are over the results map holds
\* one entry under that task_id.
SameCommandSharesOneResult ==
    \A c \in Commands : \A u, v \in 1..nTasks :
        (/\ u # v
         /\ submitted[u] = CmdTaskId(c)
         /\ submitted[v] = CmdTaskId(c)
         /\ \E i, j \in DOMAIN agents : i # j /\ agents[i] = u /\ agents[j] = v
         /\ pc[u] \in {"done_exc", "done_result"}
         /\ pc[v] \in {"done_exc", "done_result"})
            => results[CmdTaskId(c)].present


\* C38 as stated: every result of a call on the container path has
\* duration 0, no pid and an empty stderr.
ContainerResultAlwaysPlain ==
    (executePc = "returned" /\ backend = "container") =>
        /\ result.duration = 0
        /\ result.pid = {}
        /\ result.stderr = ""

\* C38, amended: a call on the container path sets and enforces no timeout,
\* whatever request.timeout is, and returns when the container run is over;
\* if the run raised nothing the result has the container's status,
\* duration 0, no pid and an empty stderr.
ContainerRunUntimed ==
    (executePc = "returned" /\ backend = "container") =>
        /\ timeout = {}
        /\ atTimeout = "unfired"
        /\ elapsed = 0
        /\ executeExc = NoExc =>
              /\ result.exit_code \in ExitCodes
              /\ result.duration = 0
              /\ result.pid = {}
              /\ result.stderr = ""

\* a sandboxed request with a timeout of 1 has come back from its container
\* with status 1
ContainerRunUntimedWitness ==
    /\ executePc = "returned"
    /\ backend = "container"
    /\ request.timeout = {1}
    /\ executeExc = NoExc
    /\ result.exit_code = 1


====
